---- MODULE Spec2Model ----
(***************************************************************************)
(* Model of the dependency intelligence pipeline of repochkr:              *)
(*   - VulnerabilityLookup.lookup (src/vuln_lookup.py): cache, guard       *)
(*     clause, retry loop, normalisation of the advisory payload;          *)
(*   - parse_manifest / detect_manifests and the per-format handlers       *)
(*     (src/dependency_parsers.py);                                        *)
(*   - severity_rank, dependency_risk, repo_risk (src/risk_model.py);      *)
(*   - the scan request, its results store and its progress record         *)
(*     (src/webapp.py).                                                    *)
(* Python strings that the code inspects character by character are        *)
(* sequences of one-character strings; strings the code only copies are    *)
(* TLA+ strings.  An optional key k of a JSON object is the pair of fields  *)
(* has_k (the key is present) and k (its value when present).              *)
(***************************************************************************)
EXTENDS Integers, Sequences, FiniteSets, TLC

VARIABLES cache, pc, args, tries, resp, seen, ret, log,
          mpath, mcontent, mfiles, mresult, mdetected,
          findings, repo_summary, dep_scores,
          LATEST_RESULTS, PROGRESS, scan_pc, scan_args, repos, results, raised, responses,
          raw_version, cleaned_version, advisory, vuln_record

lookupVars == <<cache, pc, args, tries, resp, seen, ret, log>>
parseVars == <<mpath, mcontent, mfiles, mresult, mdetected>>
riskVars == <<findings, repo_summary, dep_scores>>
scanVars == <<LATEST_RESULTS, PROGRESS, scan_pc, scan_args, repos, results, raised, responses>>
cleanVars == <<raw_version, cleaned_version>>
normaliseVars == <<advisory, vuln_record>>
vars == <<cache, pc, args, tries, resp, seen, ret, log,
          mpath, mcontent, mfiles, mresult, mdetected,
          findings, repo_summary, dep_scores,
          LATEST_RESULTS, PROGRESS, scan_pc, scan_args, repos, results, raised, responses,
          raw_version, cleaned_version, advisory, vuln_record>>
\* what each part of the pipeline leaves alone
notLookupVars == <<parseVars, riskVars, scanVars, cleanVars, normaliseVars>>
notParseVars == <<lookupVars, riskVars, scanVars, cleanVars, normaliseVars>>
notRiskVars == <<lookupVars, parseVars, scanVars, cleanVars, normaliseVars>>
notScanVars == <<lookupVars, parseVars, riskVars, cleanVars, normaliseVars>>
notCleanVars == <<lookupVars, parseVars, riskVars, scanVars, normaliseVars>>
notNormaliseVars == <<lookupVars, parseVars, riskVars, scanVars, cleanVars>>

(***************************************************************************)
(* Bounds                                                                  *)
(***************************************************************************)
\* number of lookup calls made on one VulnerabilityLookup object
MaxCalls == 3

(***************************************************************************)
(* String helpers (str.lower, comparison of characters)                    *)
(***************************************************************************)
UpperCase == {"A", "N"}

LowerChar(c) ==
    CASE c = "A" -> "a"
      [] c = "N" -> "n"
      [] OTHER -> c

Lower(s) == [i \in 1..Len(s) |-> LowerChar(s[i])]

\* code points of the characters that occur in version strings
Ord(c) ==
    CASE c = "." -> 46
      [] c = "0" -> 48
      [] c = "1" -> 49
      [] c = "2" -> 50
      [] c = "9" -> 57
      [] OTHER -> 0

RECURSIVE StrLess(_, _)
StrLess(a, b) ==
    IF a = <<>> THEN b # <<>>
    ELSE IF b = <<>> THEN FALSE
    ELSE IF Ord(Head(a)) # Ord(Head(b)) THEN Ord(Head(a)) < Ord(Head(b))
    ELSE StrLess(Tail(a), Tail(b))

\* sorted(set of strings)
RECURSIVE Sorted(_)
Sorted(S) ==
    IF S = {} THEN <<>>
    ELSE LET m == CHOOSE x \in S : \A y \in S \ {x} : StrLess(x, y)
         IN <<m>> \o Sorted(S \ {m})

\* " ".join(parts)
RECURSIVE Join(_)
Join(parts) ==
    IF parts = <<>> THEN <<>>
    ELSE IF Len(parts) = 1 THEN parts[1]
    ELSE parts[1] \o <<" ">> \o Join(Tail(parts))

(***************************************************************************)
(* String operations of dependency_parsers.py                              *)
(***************************************************************************)
\* dict.get(key, default) and findtext(name, default) on an optional field
Get(has, val, default) == IF has THEN val ELSE default

IsSpace(c) == c \in {" ", "\t", "\n", "\r"}

RECURSIVE LStrip(_)
LStrip(s) == IF s # <<>> /\ IsSpace(Head(s)) THEN LStrip(Tail(s)) ELSE s

RECURSIVE RStrip(_)
RStrip(s) ==
    IF s # <<>> /\ IsSpace(s[Len(s)]) THEN RStrip(SubSeq(s, 1, Len(s) - 1)) ELSE s

\* str.strip()
Strip(s) == RStrip(LStrip(s))

\* str.startswith(prefix)
StartsWith(s, prefix) ==
    Len(s) >= Len(prefix) /\ SubSeq(s, 1, Len(prefix)) = prefix

\* str.endswith(suffix)
EndsWith(s, suffix) ==
    Len(s) >= Len(suffix) /\ SubSeq(s, Len(s) - Len(suffix) + 1, Len(s)) = suffix

\* positions of a character in a string
Positions(s, c) == {i \in 1..Len(s) : s[i] = c}

Min(S) == CHOOSE x \in S : \A y \in S : x <= y
Max(S) == CHOOSE x \in S : \A y \in S : x >= y

\* str.splitlines() for the line terminator "\n"
RECURSIVE SplitLines(_)
SplitLines(s) ==
    IF s = <<>> THEN <<>>
    ELSE IF Positions(s, "\n") = {} THEN <<s>>
    ELSE LET i == Min(Positions(s, "\n"))
         IN <<SubSeq(s, 1, i - 1)>> \o SplitLines(SubSeq(s, i + 1, Len(s)))

\* str.split(): the maximal runs of non-whitespace characters
RECURSIVE Tokens(_)
Tokens(s) ==
    LET t == LStrip(s)
        ws == {i \in 1..Len(t) : IsSpace(t[i])}
    IN IF t = <<>> THEN <<>>
       ELSE IF ws = {} THEN <<t>>
       ELSE <<SubSeq(t, 1, Min(ws) - 1)>> \o Tokens(SubSeq(t, Min(ws), Len(t)))

\* str.split(" ")[0]
FirstSpaceField(s) ==
    IF Positions(s, " ") = {} THEN s ELSE SubSeq(s, 1, Min(Positions(s, " ")) - 1)

\* re.split(r"(==|>=|<=|~=|!=)", line, maxsplit=1): the leftmost operator
OperatorStarts(line) ==
    {i \in 1..(Len(line) - 1) :
        line[i] \in {"=", ">", "<", "~", "!"} /\ line[i + 1] = "="}

ReSplitOperator(line) ==
    IF OperatorStarts(line) = {} THEN <<line>>
    ELSE LET i == Min(OperatorStarts(line))
         IN <<SubSeq(line, 1, i - 1), SubSeq(line, i, i + 1),
              SubSeq(line, i + 2, Len(line))>>

(***************************************************************************)
(* Decoded JSON / TOML values: t is "str", "num", "dict" or "list"; s is   *)
(* the text of a str and the str() rendering of a num; items are the       *)
(* elements of a list and the <<key, value>> pairs of a dict, in order.    *)
(***************************************************************************)
VStr(s) == [t |-> "str", s |-> s, items |-> <<>>]
VNum(s) == [t |-> "num", s |-> s, items |-> <<>>]
VDict(items) == [t |-> "dict", s |-> <<>>, items |-> items]
VList(items) == [t |-> "list", s |-> <<>>, items |-> items]

\* Python truthiness of a value; a num is rendered "0" when it is zero
Truthy(v) ==
    CASE v.t = "str" -> v.s # <<>>
      [] v.t = "num" -> v.s # <<"0">>
      [] OTHER -> v.items # <<>>

HasKey(d, key) == \E i \in 1..Len(d.items) : d.items[i][1] = key

\* dict.get(key, default) on a dict value
DictGet(d, key, default) ==
    IF HasKey(d, key)
    THEN d.items[Min({i \in 1..Len(d.items) : d.items[i][1] = key})][2]
    ELSE default

\* ", ".join(parts)
RECURSIVE JoinComma(_)
JoinComma(parts) ==
    IF parts = <<>> THEN <<>>
    ELSE IF Len(parts) = 1 THEN parts[1]
    ELSE parts[1] \o <<",", " ">> \o JoinComma(Tail(parts))

\* repr(v) / str(v) of a decoded value
RECURSIVE PyRepr(_)
PyRepr(v) ==
    CASE v.t = "str" -> <<"'">> \o v.s \o <<"'">>
      [] v.t = "num" -> v.s
      [] v.t = "list" ->
            <<"[">> \o JoinComma([i \in 1..Len(v.items) |-> PyRepr(v.items[i])])
                    \o <<"]">>
      [] OTHER ->
            <<"{">> \o JoinComma([i \in 1..Len(v.items) |->
                           <<"'">> \o v.items[i][1] \o <<"'", ":", " ">>
                           \o PyRepr(v.items[i][2])])
                    \o <<"}">>

PyStr(v) == IF v.t = "str" THEN v.s ELSE PyRepr(v)

(***************************************************************************)
(* _clean_version and _normalize_dep                                       *)
(***************************************************************************)
\* the character class [~^><=\\s] of the raw pattern r"^[~^><=\\s]+": the
\* operators, the backslash and the letter s
OperatorClass == {"~", "^", ">", "<", "=", "\\", "s"}

\* re.sub(r"^[~^><=\\s]+", "", v)
RECURSIVE StripOperators(_)
StripOperators(v) ==
    IF v # <<>> /\ Head(v) \in OperatorClass THEN StripOperators(Tail(v)) ELSE v

\* _clean_version(version) for a decoded value
CleanVersion(version) ==
    IF version.t # "str" THEN PyStr(version)
    ELSE LET v == StripOperators(Strip(version.s))
         IN IF v # <<>> THEN v ELSE version.s

NormalizeDep(ecosystem, name, version, scope, manifest_path) ==
    [ecosystem |-> ecosystem,
     name |-> Strip(name),
     version |-> CleanVersion(version),
     scope |-> scope,
     manifest_path |-> manifest_path]

\* outcome of a handler: the records it returns, or an exception
Deps(deps) == [raises |-> FALSE, deps |-> deps]
HandlerRaises == [raises |-> TRUE, deps |-> <<>>]

(***************************************************************************)
(* Manifest contents.  A content is the text of a file, given by what the  *)
(* library decoders make of it: kind "text" (plain lines, text), "json"    *)
(* (json.loads gives doc), "toml" (tomllib.loads gives doc), "xml"         *)
(* (ET.fromstring gives a tree whose m:dependency elements are nodes),     *)
(* "gradle" (the dependency pattern matches at matches) and "garbage"      *)
(* (every decoder fails, the pattern matches nowhere).                     *)
(***************************************************************************)
JsonOk(c) == c.kind = "json"
TomlOk(c) == c.kind = "toml"
XmlOk(c) == c.kind = "xml"

\* iteration over a decoded value: list elements, dict keys, str characters
Iterable(v) == v.t # "num"
Iter(v) ==
    CASE v.t = "list" -> v.items
      [] v.t = "dict" -> [i \in 1..Len(v.items) |-> VStr(v.items[i][1])]
      [] OTHER -> [i \in 1..Len(v.s) |-> VStr(<<v.s[i]>>)]

RECURSIVE Concat(_)
Concat(seqs) == IF seqs = <<>> THEN <<>> ELSE Head(seqs) \o Concat(Tail(seqs))

\* the keys the handlers read from decoded documents
K ==
    [dependencies |-> <<"d", "e", "p", "e", "n", "d", "e", "n", "c", "i", "e", "s">>,
     devDependencies |-> <<"d", "e", "v", "D", "e", "p", "e", "n", "d", "e", "n", "c", "i", "e", "s">>,
     dev_dependencies |-> <<"d", "e", "v", "-", "d", "e", "p", "e", "n", "d", "e", "n", "c", "i", "e", "s">>,
     build_dependencies |-> <<"b", "u", "i", "l", "d", "-", "d", "e", "p", "e", "n", "d", "e", "n", "c", "i", "e", "s">>,
     optional_dependencies |-> <<"o", "p", "t", "i", "o", "n", "a", "l", "-", "d", "e", "p", "e", "n", "d", "e", "n", "c", "i", "e", "s">>,
     project |-> <<"p", "r", "o", "j", "e", "c", "t">>,
     tool |-> <<"t", "o", "o", "l">>,
     poetry |-> <<"p", "o", "e", "t", "r", "y">>,
     python |-> <<"p", "y", "t", "h", "o", "n">>,
     packages |-> <<"p", "a", "c", "k", "a", "g", "e", "s">>,
     dev_packages |-> <<"d", "e", "v", "-", "p", "a", "c", "k", "a", "g", "e", "s">>,
     default |-> <<"d", "e", "f", "a", "u", "l", "t">>,
     develop |-> <<"d", "e", "v", "e", "l", "o", "p">>,
     package |-> <<"p", "a", "c", "k", "a", "g", "e">>,
     name |-> <<"n", "a", "m", "e">>,
     version |-> <<"v", "e", "r", "s", "i", "o", "n">>]
Star == VStr(<<"*">>)
EmptyDict == VDict(<<>>)

\* for name, version in d.items(): deps.append(_normalize_dep(...))
ItemDeps(ecosystem, d, scope, path) ==
    [i \in 1..Len(d.items) |->
        NormalizeDep(ecosystem, d.items[i][1], d.items[i][2], scope, path)]

\* parse_package_json
ParsePackageJson(content, path) ==
    IF ~JsonOk(content) THEN HandlerRaises
    ELSE LET data == content.doc
             run == DictGet(data, K.dependencies, EmptyDict)
             dev == DictGet(data, K.devDependencies, EmptyDict)
         IN IF data.t # "dict" \/ run.t # "dict" \/ dev.t # "dict"
            THEN HandlerRaises
            ELSE Deps(ItemDeps("npm", run, "runtime", path)
                      \o ItemDeps("npm", dev, "dev", path))

\* one line of parse_requirements_txt
ReqLineDeps(rawline, path) ==
    LET line == Strip(rawline)
        match == ReSplitOperator(line)
    IN IF line = <<>> \/ StartsWith(line, <<"#">>) THEN <<>>
       ELSE IF Len(match) >= 3
       THEN <<NormalizeDep("pypi", match[1], VStr(match[3]), "runtime", path)>>
       ELSE <<NormalizeDep("pypi", line, Star, "runtime", path)>>

\* parse_requirements_txt
ParseRequirementsTxt(content, path) ==
    LET lines == SplitLines(content.text)
    IN Deps(Concat([i \in 1..Len(lines) |-> ReqLineDeps(lines[i], path)]))

\* one entry of project.dependencies in parse_pyproject_toml
ProjectEntryDeps(entry, path) ==
    LET parts == ReSplitOperator(entry.s)
    IN IF entry.t # "str" THEN <<>>
       ELSE IF Len(parts) >= 3
       THEN <<NormalizeDep("pypi", parts[1], VStr(parts[3]), "runtime", path)>>
       ELSE <<NormalizeDep("pypi", entry.s, Star, "runtime", path)>>

\* the entries of one optional-dependencies group: the unsplit entry is the version
OptionalGroupRaises(group) ==
    \/ ~Iterable(group)
    \/ \E i \in 1..Len(Iter(group)) : Iter(group)[i].t # "str"

OptionalGroupDeps(group, path) ==
    [i \in 1..Len(Iter(group)) |->
        NormalizeDep("pypi", FirstSpaceField(Iter(group)[i].s), Iter(group)[i],
                     "dev", path)]

\* one section of tool.poetry: python is skipped, the version is str(version)
PoetrySectionDeps(d, scope, path) ==
    Concat([i \in 1..Len(d.items) |->
        IF d.items[i][1] = K.python THEN <<>>
        ELSE <<NormalizeDep("pypi", d.items[i][1], VStr(PyStr(d.items[i][2])),
                            scope, path)>>])

\* parse_pyproject_toml
ParsePyprojectToml(content, path) ==
    IF ~TomlOk(content) THEN HandlerRaises
    ELSE LET data == content.doc
             project == DictGet(data, K.project, EmptyDict)
             entries == DictGet(project, K.dependencies, VList(<<>>))
             opt == DictGet(project, K.optional_dependencies, EmptyDict)
             tool == DictGet(data, K.tool, EmptyDict)
             poetry == DictGet(tool, K.poetry, EmptyDict)
             run == DictGet(poetry, K.dependencies, EmptyDict)
             dev == DictGet(poetry, K.dev_dependencies, EmptyDict)
         IN IF \/ project.t # "dict"
               \/ ~Iterable(entries)
               \/ opt.t # "dict"
               \/ \E i \in 1..Len(opt.items) : OptionalGroupRaises(opt.items[i][2])
               \/ tool.t # "dict"
               \/ poetry.t # "dict"
               \/ run.t # "dict"
               \/ dev.t # "dict"
            THEN HandlerRaises
            ELSE Deps(
                Concat([i \in 1..Len(Iter(entries)) |->
                           ProjectEntryDeps(Iter(entries)[i], path)])
                \o Concat([i \in 1..Len(opt.items) |->
                           OptionalGroupDeps(opt.items[i][2], path)])
                \o PoetrySectionDeps(run, "runtime", path)
                \o PoetrySectionDeps(dev, "dev", path))

\* the version of one Pipfile entry
PipfileVersion(version) ==
    IF version.t = "dict" THEN DictGet(version, K.version, Star)
    ELSE IF version.t = "str" THEN version
    ELSE Star

PipfileSectionDeps(d, scope, path) ==
    [i \in 1..Len(d.items) |->
        NormalizeDep("pypi", d.items[i][1], PipfileVersion(d.items[i][2]),
                     scope, path)]

\* parse_pipfile: TOML first, JSON (Pipfile.lock) as the fallback; the
\* conditional expression of line 105 reads packages-or-default for the
\* runtime section and develop for the dev section
ParsePipfile(content, path) ==
    IF ~TomlOk(content) /\ ~JsonOk(content) THEN HandlerRaises
    ELSE LET data == content.doc
             packages == DictGet(data, K.packages, EmptyDict)
             run == IF Truthy(packages) THEN packages
                    ELSE DictGet(data, K.default, EmptyDict)
             dev == DictGet(data, K.develop, EmptyDict)
         IN IF data.t # "dict" \/ run.t # "dict" \/ dev.t # "dict"
            THEN HandlerRaises
            ELSE Deps(PipfileSectionDeps(run, "runtime", path)
                      \o PipfileSectionDeps(dev, "dev", path))

\* one element of the package array of poetry.lock
LockPackageRaises(pkg) ==
    \/ pkg.t # "dict"
    \/ /\ HasKey(pkg, K.name)
       /\ Truthy(DictGet(pkg, K.name, Star))
       /\ DictGet(pkg, K.name, Star).t # "str"

LockPackageDeps(pkg, path) ==
    IF ~HasKey(pkg, K.name) \/ ~Truthy(DictGet(pkg, K.name, Star)) THEN <<>>
    ELSE <<NormalizeDep("pypi", DictGet(pkg, K.name, Star).s,
                        DictGet(pkg, K.version, Star), "runtime", path)>>

\* parse_poetry_lock
ParsePoetryLock(content, path) ==
    IF ~TomlOk(content) THEN HandlerRaises
    ELSE LET pkgs == DictGet(content.doc, K.package, VList(<<>>))
         IN IF \/ ~Iterable(pkgs)
               \/ \E i \in 1..Len(Iter(pkgs)) : LockPackageRaises(Iter(pkgs)[i])
            THEN HandlerRaises
            ELSE Deps(Concat([i \in 1..Len(Iter(pkgs)) |->
                                 LockPackageDeps(Iter(pkgs)[i], path)]))

\* one line of parse_go_mod
GoLineDeps(rawline, path) ==
    LET line == Strip(rawline)
        parts == Tokens(line)
    IN IF \/ line = <<>>
          \/ StartsWith(line, <<"/", "/">>)
          \/ StartsWith(line, <<"m", "o", "d", "u", "l", "e">>)
          \/ StartsWith(line, <<"r", "e", "q", "u", "i", "r", "e">>)
          \/ Len(parts) < 2
       THEN <<>>
       ELSE <<NormalizeDep("go", parts[1], VStr(parts[2]), "runtime", path)>>

\* parse_go_mod
ParseGoMod(content, path) ==
    LET lines == SplitLines(content.text)
    IN Deps(Concat([i \in 1..Len(lines) |-> GoLineDeps(lines[i], path)]))

\* version if isinstance(version, str) else "*"
CargoVersion(version) == IF version.t = "str" THEN version ELSE Star

CargoSectionDeps(d, scope, path) ==
    [i \in 1..Len(d.items) |->
        NormalizeDep("cargo", d.items[i][1], CargoVersion(d.items[i][2]),
                     scope, path)]

\* parse_cargo_toml
ParseCargoToml(content, path) ==
    IF ~TomlOk(content) THEN HandlerRaises
    ELSE LET data == content.doc
             run == DictGet(data, K.dependencies, EmptyDict)
             dev == DictGet(data, K.dev_dependencies, EmptyDict)
             build == DictGet(data, K.build_dependencies, EmptyDict)
         IN IF run.t # "dict" \/ dev.t # "dict" \/ build.t # "dict"
            THEN HandlerRaises
            ELSE Deps(CargoSectionDeps(run, "runtime", path)
                      \o CargoSectionDeps(dev, "dev", path)
                      \o CargoSectionDeps(build, "runtime", path))

\* one m:dependency element of parse_pom_xml; findtext gives the default
\* only when the child element is missing
PomNodeDep(dep, path) ==
    LET group == Get(dep.has_groupId, dep.groupId, <<>>)
        artifact == Get(dep.has_artifactId, dep.artifactId, <<>>)
        version == Get(dep.has_version, dep.version, <<"*">>)
        scope == Get(dep.has_scope, dep.scope, "runtime")
        name == IF group # <<>> THEN group \o <<":">> \o artifact ELSE artifact
    IN NormalizeDep("maven", name, VStr(version), scope, path)

\* parse_pom_xml: a ParseError gives the empty list
ParsePomXml(content, path) ==
    IF ~XmlOk(content) THEN Deps(<<>>)
    ELSE Deps([i \in 1..Len(content.nodes) |-> PomNodeDep(content.nodes[i], path)])

\* scope_map.get(match.group(1), "runtime")
GradleScope(conf) == IF conf = "testImplementation" THEN "test" ELSE "runtime"

\* the matches of the dependency pattern in the text, in order
GradleMatches(content) == IF content.kind = "gradle" THEN content.matches ELSE <<>>

\* parse_gradle
ParseGradle(content, path) ==
    LET ms == GradleMatches(content)
    IN Deps([i \in 1..Len(ms) |->
                NormalizeDep("maven", ms[i].group \o <<":">> \o ms[i].artifact,
                             VStr(ms[i].version), GradleScope(ms[i].conf), path)])

(***************************************************************************)
(* HANDLERS, detect_manifests, parse_manifest                              *)
(***************************************************************************)
\* file names: the keys of HANDLERS, and two names that are not keys
N ==
    [package_json |-> <<"p", "a", "c", "k", "a", "g", "e", ".", "j", "s", "o", "n">>,
     requirements_txt |-> <<"r", "e", "q", "u", "i", "r", "e", "m", "e", "n", "t", "s", ".", "t", "x", "t">>,
     pyproject_toml |-> <<"p", "y", "p", "r", "o", "j", "e", "c", "t", ".", "t", "o", "m", "l">>,
     Pipfile |-> <<"P", "i", "p", "f", "i", "l", "e">>,
     Pipfile_lock |-> <<"P", "i", "p", "f", "i", "l", "e", ".", "l", "o", "c", "k">>,
     poetry_lock |-> <<"p", "o", "e", "t", "r", "y", ".", "l", "o", "c", "k">>,
     go_mod |-> <<"g", "o", ".", "m", "o", "d">>,
     Cargo_toml |-> <<"C", "a", "r", "g", "o", ".", "t", "o", "m", "l">>,
     pom_xml |-> <<"p", "o", "m", ".", "x", "m", "l">>,
     build_gradle |-> <<"b", "u", "i", "l", "d", ".", "g", "r", "a", "d", "l", "e">>,
     build_gradle_kts |-> <<"b", "u", "i", "l", "d", ".", "g", "r", "a", "d", "l", "e", ".", "k", "t", "s">>,
     requirements_dev_txt |-> <<"r", "e", "q", "u", "i", "r", "e", "m", "e", "n", "t", "s", "-", "d", "e", "v", ".", "t", "x", "t">>,
     README_md |-> <<"R", "E", "A", "D", "M", "E", ".", "m", "d">>]

\* the keys of HANDLERS
HandlerNames ==
    {N.package_json, N.requirements_txt, N.pyproject_toml, N.Pipfile,
     N.Pipfile_lock, N.poetry_lock, N.go_mod, N.Cargo_toml, N.pom_xml,
     N.build_gradle, N.build_gradle_kts}

\* HANDLERS.get(name): the handler registered for the exact file name
HandlerFor(name) ==
    CASE name = N.package_json -> "parse_package_json"
      [] name = N.requirements_txt -> "parse_requirements_txt"
      [] name = N.pyproject_toml -> "parse_pyproject_toml"
      [] name \in {N.Pipfile, N.Pipfile_lock} -> "parse_pipfile"
      [] name = N.poetry_lock -> "parse_poetry_lock"
      [] name = N.go_mod -> "parse_go_mod"
      [] name = N.Cargo_toml -> "parse_cargo_toml"
      [] name = N.pom_xml -> "parse_pom_xml"
      [] name \in {N.build_gradle, N.build_gradle_kts} -> "parse_gradle"
      [] OTHER -> "none"

\* handler(content, path)
ApplyHandler(handler, content, path) ==
    CASE handler = "parse_package_json" -> ParsePackageJson(content, path)
      [] handler = "parse_requirements_txt" -> ParseRequirementsTxt(content, path)
      [] handler = "parse_pyproject_toml" -> ParsePyprojectToml(content, path)
      [] handler = "parse_pipfile" -> ParsePipfile(content, path)
      [] handler = "parse_poetry_lock" -> ParsePoetryLock(content, path)
      [] handler = "parse_go_mod" -> ParseGoMod(content, path)
      [] handler = "parse_cargo_toml" -> ParseCargoToml(content, path)
      [] handler = "parse_pom_xml" -> ParsePomXml(content, path)
      [] OTHER -> ParseGradle(content, path)

\* Path(path).name: the last component, trailing separators dropped
RECURSIVE DropTrailingSlashes(_)
DropTrailingSlashes(p) ==
    IF p # <<>> /\ p[Len(p)] = "/"
    THEN DropTrailingSlashes(SubSeq(p, 1, Len(p) - 1)) ELSE p

PathName(path) ==
    LET p == DropTrailingSlashes(path)
    IN IF Positions(p, "/") = {} THEN p
       ELSE SubSeq(p, Max(Positions(p, "/")) + 1, Len(p))

\* a parse_manifest whose handler call is not wrapped in try/except
CatchNothing(outcome) == outcome

\* try: return handler(content, path) / except Exception: return []
CatchAll(outcome) == IF outcome.raises THEN Deps(<<>>) ELSE outcome

\* parse_manifest(path, content)
ParseManifestFn(path, content) ==
    LET handler == HandlerFor(PathName(path))
    IN IF handler = "none" THEN Deps(<<>>)
       ELSE CatchAll(ApplyHandler(handler, content, path))

\* the test of line 212 on one listing entry
IsManifestName(name) ==
    \/ name \in HandlerNames
    \/ /\ name # <<>>
       /\ StartsWith(name, <<"r", "e", "q", "u", "i", "r", "e", "m", "e", "n", "t", "s">>)
       /\ EndsWith(name, <<".", "t", "x", "t">>)

\* detect_manifests(files)
RECURSIVE DetectManifestsFn(_)
DetectManifestsFn(files) ==
    IF files = <<>> THEN <<>>
    ELSE (IF IsManifestName(Head(files).name) THEN <<Head(files).path>> ELSE <<>>)
         \o DetectManifestsFn(Tail(files))

(***************************************************************************)
(* The advisory payload and its normalisation (vuln_lookup.py 49-88)       *)
(***************************************************************************)
\* float(s.get("score")): TypeError on None, ValueError on a non-numeric string
\* score values: kind "absent" (None), "num" (convertible, val), "text" (not)
ParseScore(s) ==
    IF s.kind = "num" THEN [none |-> FALSE, val |-> s.val]
    ELSE [none |-> TRUE, val |-> 0]

\* the loop over v["severity"]: the last entry decides both fields
RECURSIVE SeverityLoop(_, _, _)
SeverityLoop(entries, severity, score) ==
    IF entries = <<>> THEN [severity |-> severity, score |-> score]
    ELSE LET s == Head(entries)
         IN SeverityLoop(Tail(entries),
                         Get(s.has_type, s.type, severity),
                         ParseScore(s.score))

\* the loop over events of ranges[0]: display parts and fixed versions
RECURSIVE EventParts(_)
EventParts(events) ==
    IF events = <<>> THEN <<>>
    ELSE LET ev == Head(events)
         IN (IF ev.has_introduced THEN << <<">", "=">> \o ev.introduced >> ELSE <<>>)
            \o (IF ev.has_fixed THEN << <<"<">> \o ev.fixed >> ELSE <<>>)
            \o EventParts(Tail(events))

EventFixed(events) ==
    {events[i].fixed : i \in {j \in 1..Len(events) : events[j].has_fixed}}

SeqToSet(s) == {s[i] : i \in 1..Len(s)}

\* the loop over v["affected"]
RECURSIVE AffectedLoop(_, _, _)
AffectedLoop(affected, range, fixed) ==
    IF affected = <<>> THEN [affected_range |-> range, fixed_versions |-> fixed]
    ELSE LET aff == Head(affected)
             ranges == Get(aff.has_ranges, aff.ranges, <<>>)
             events == Get(ranges[1].has_events, ranges[1].events, <<>>)
             versions == SeqToSet(Get(aff.has_versions, aff.versions, <<>>))
         IN IF ranges # <<>>
            THEN AffectedLoop(Tail(affected), Join(EventParts(events)),
                              fixed \cup EventFixed(events) \cup versions)
            ELSE AffectedLoop(Tail(affected), range, fixed \cup versions)

\* v.get("id") or aliases[0] if aliases else ""
VulnId(v) ==
    LET aliases == IF v.has_aliases THEN v.aliases ELSE <<>>
        id == Get(v.has_id, v.id, "")
    IN IF aliases # <<>>
       THEN (IF id # "" THEN id ELSE aliases[1])
       ELSE ""

\* v.get("references", [{}])[0] raises IndexError on an empty array
RefList(v) == Get(v.has_references, v.references, <<[has_url |-> FALSE, url |-> ""]>>)

VulnRaises(v) == RefList(v) = <<>>

BuildVuln(v) ==
    LET sev == SeverityLoop(Get(v.has_severity, v.severity, <<>>),
                            "UNKNOWN", [none |-> TRUE, val |-> 0])
        aff == AffectedLoop(Get(v.has_affected, v.affected, <<>>), <<>>, {})
        summary == IF Get(v.has_summary, v.summary, "") # ""
                   THEN v.summary ELSE Get(v.has_details, v.details, "")
        ref == RefList(v)[1]
    IN [id |-> VulnId(v),
        summary |-> summary,
        severity |-> sev.severity,
        cvss_score |-> sev.score,
        affected_range |-> aff.affected_range,
        fixed_versions |-> Sorted(aff.fixed_versions),
        reference_url |-> Get(ref.has_url, ref.url, "")]

\* the for loop of lines 51-86 over data.get("vulns", [])
BuildVulns(vs) == [i \in 1..Len(vs) |-> BuildVuln(vs[i])]

AnyVulnRaises(vs) == \E i \in 1..Len(vs) : VulnRaises(vs[i])

(***************************************************************************)
(* Risk scoring (risk_model.py)                                            *)
(* Of a vulnerability record the risk model reads the key severity only,   *)
(* of a dependency the key scope only.                                     *)
(***************************************************************************)
SEVERITY_WEIGHTS ==
    [CRITICAL |-> 5, HIGH |-> 4, MEDIUM |-> 3, LOW |-> 1, UNKNOWN |-> 1]

\* severity.upper() on the labels that are drawn
Upper(severity) ==
    CASE severity = "high" -> "HIGH"
      [] OTHER -> severity

\* SEVERITY_WEIGHTS.get(severity.upper(), 1)
severity_rank(severity) ==
    IF Upper(severity) \in DOMAIN SEVERITY_WEIGHTS
    THEN SEVERITY_WEIGHTS[Upper(severity)]
    ELSE 1

\* v.get("severity", "LOW")
SeverityOf(v) == Get(v.has_severity, v.severity, "LOW")

\* a per-dependency score that forgets the boost of runtime dependencies
DependencyRiskNoBoost(dep, vulns) ==
    IF vulns = <<>> THEN 0
    ELSE Max({severity_rank(SeverityOf(vulns[i])) : i \in 1..Len(vulns)})

dependency_risk(dep, vulns) ==
    IF vulns = <<>> THEN 0
    ELSE LET weight == Max({severity_rank(SeverityOf(vulns[i])) : i \in 1..Len(vulns)})
             scope_boost == IF dep.has_scope /\ dep.scope = "runtime" THEN 1 ELSE 0
         IN weight + scope_boost

\* max(..., key=severity_rank): the first label of the highest rank
MaxBySeverity(vulns) ==
    LET m == Max({severity_rank(SeverityOf(vulns[i])) : i \in 1..Len(vulns)})
        first == Min({i \in 1..Len(vulns) : severity_rank(SeverityOf(vulns[i])) = m})
    IN SeverityOf(vulns[first])

\* the for loop of repo_risk
RECURSIVE RepoRiskLoop(_, _, _, _)
RepoRiskLoop(items, score, highest, vuln_count) ==
    IF items = <<>>
    THEN [risk_score |-> score, highest_severity |-> highest,
          vulnerable_dependencies |-> vuln_count]
    ELSE LET item == Head(items)
             vulns == Get(item.has_vulnerabilities, item.vulnerabilities, <<>>)
             sev == MaxBySeverity(vulns)
         IN IF vulns = <<>>
            THEN RepoRiskLoop(Tail(items), score, highest, vuln_count)
            ELSE RepoRiskLoop(Tail(items),
                              score + dependency_risk(item.dependency, vulns),
                              IF severity_rank(sev) > severity_rank(highest)
                              THEN sev ELSE highest,
                              vuln_count + 1)

\* a summary that counts vulnerabilities instead of vulnerable dependencies
RECURSIVE CountVulns(_)
CountVulns(items) ==
    IF items = <<>> THEN 0
    ELSE Len(Get(Head(items).has_vulnerabilities, Head(items).vulnerabilities, <<>>))
         + CountVulns(Tail(items))

RepoRiskCountsVulns(deps_with_vulns) ==
    [RepoRiskLoop(deps_with_vulns, 0, "LOW", 0)
        EXCEPT !.vulnerable_dependencies = CountVulns(deps_with_vulns)]

repo_risk(deps_with_vulns) == RepoRiskLoop(deps_with_vulns, 0, "LOW", 0)

\* before and after a call of the scoring functions
NotScored == [done |-> FALSE, val |-> <<>>]
Scored(val) == [done |-> TRUE, val |-> val]

\* no findings collected, nothing scored
RiskInit ==
    /\ findings = <<>>
    /\ repo_summary = NotScored
    /\ dep_scores = NotScored

(***************************************************************************)
(* The scan request (webapp.py): scan, scan_owner, the results store and   *)
(* the progress record                                                     *)
(***************************************************************************)
\* number of scan requests served
MaxScans == 2
\* longest list of repositories fetch_repos returns
MaxRepos == 2

Owners == {"a", "b"}

\* _LATEST_RESULTS: Dict = {}
NoResults == [committed |-> FALSE, owner |-> "", results |-> <<>>]
\* {"owner": owner, "results": results}
Committed(owner, res) == [committed |-> TRUE, owner |-> owner, results |-> res]

\* a clear() that leaves the store as it is
ClearKeeps(store) == store

\* _LATEST_RESULTS.clear()
Clear(store) == NoResults

\* _PROGRESS as constructed at line 67
ProgressIdle ==
    [state |-> "idle", message |-> "", current_repo |-> "", processed |-> 0, total |-> 0]

\* what raises inside scan_owner: the RuntimeError of GitHubClient._request on
\* a rate limit, another RuntimeError, a requests RequestException (which the
\* HTTPError of a failed lookup is), any other exception
ErrorKinds == {"rate limit", "RuntimeError", "RequestException", "Exception"}

\* the error page of the except clause that catches the exception
ErrorText(err) ==
    CASE err = "rate limit" -> "GitHub rate limit reached"
      [] err = "RuntimeError" -> "Unexpected error"
      [] err = "RequestException" -> "Could not reach required APIs"
      [] OTHER -> "Unexpected error"

OkText == "results"

\* the entry of results for a repository (lines 477-486)
RepoResult(repo) == [name |-> repo]

ScanInit ==
    /\ LATEST_RESULTS = NoResults
    /\ PROGRESS = ProgressIdle
    /\ scan_pc = "idle"
    /\ scan_args = ""
    /\ repos = <<>>
    /\ results = <<>>
    /\ raised = ""
    /\ responses = <<>>

\* lines 504-507: the request arrives, the progress record is reset
ScanStart(owner) ==
    /\ scan_pc = "idle"
    /\ Len(responses) < MaxScans
    /\ scan_args' = owner
    /\ PROGRESS' = [state |-> "starting", message |-> "Starting scan",
                    current_repo |-> "", processed |-> 0, total |-> 0]
    /\ repos' = <<>>
    /\ results' = <<>>
    /\ raised' = ""
    /\ scan_pc' = "scan_owner"
    /\ UNCHANGED <<LATEST_RESULTS, responses>>

\* lines 457-462: fetch_repos returns n repositories
FetchRepos(n) ==
    /\ scan_pc = "scan_owner"
    /\ repos' = [i \in 1..n |-> i]
    /\ PROGRESS' = [PROGRESS EXCEPT !.state = "scanning",
                                    !.message = "Scanning repositories",
                                    !.processed = 0, !.total = n]
    /\ results' = <<>>
    /\ scan_pc' = "for repo"
    /\ UNCHANGED <<LATEST_RESULTS, scan_args, raised, responses>>

\* lines 457-460 raise: a malformed min_updated, a rate limit, a transport error
FetchReposFails(err) ==
    /\ scan_pc = "scan_owner"
    /\ raised' = err
    /\ scan_pc' = "raised"
    /\ UNCHANGED <<LATEST_RESULTS, PROGRESS, scan_args, repos, results, responses>>

\* line 464: the next repository of the loop is announced
BeginRepo ==
    /\ scan_pc = "for repo"
    /\ Len(results) < Len(repos)
    /\ PROGRESS' = [PROGRESS EXCEPT !.current_repo = "repo", !.processed = Len(results)]
    /\ scan_pc' = "repo"
    /\ UNCHANGED <<LATEST_RESULTS, scan_args, repos, results, raised, responses>>

\* lines 465-487: files listed, manifests parsed, dependencies looked up and
\* scored, the entry appended
FinishRepo ==
    /\ scan_pc = "repo"
    /\ results' = Append(results, RepoResult(repos[Len(results) + 1]))
    /\ PROGRESS' = [PROGRESS EXCEPT !.processed = Len(results) + 1]
    /\ scan_pc' = "for repo"
    /\ UNCHANGED <<LATEST_RESULTS, scan_args, repos, raised, responses>>

\* lines 465-476 raise: listing or fetching files, a lookup, the scoring
RepoFails(err) ==
    /\ scan_pc = "repo"
    /\ raised' = err
    /\ scan_pc' = "raised"
    /\ UNCHANGED <<LATEST_RESULTS, PROGRESS, scan_args, repos, results, responses>>

\* lines 488-489: the loop is over, scan_owner returns results
ScanOwnerReturns ==
    /\ scan_pc = "for repo"
    /\ Len(results) = Len(repos)
    /\ PROGRESS' = [PROGRESS EXCEPT !.state = "done", !.message = "Complete",
                                    !.current_repo = "", !.processed = Len(results)]
    /\ scan_pc' = "returned"
    /\ UNCHANGED <<LATEST_RESULTS, scan_args, repos, results, raised, responses>>

\* lines 509-533: each except clause clears the store and renders the error
ScanExcept ==
    /\ scan_pc = "raised"
    /\ LATEST_RESULTS' = Clear(LATEST_RESULTS)
    /\ responses' = Append(responses, ErrorText(raised))
    /\ scan_pc' = "idle"
    /\ UNCHANGED <<PROGRESS, scan_args, repos, results, raised>>

\* lines 534-550: the else clause commits the results and renders them
ScanElse ==
    /\ scan_pc = "returned"
    /\ LATEST_RESULTS' = Committed(scan_args, results)
    /\ responses' = Append(responses, OkText)
    /\ scan_pc' = "idle"
    /\ UNCHANGED <<PROGRESS, scan_args, repos, results, raised>>

(***************************************************************************)
(* Calls of _clean_version on a string, and of the advisory normalisation  *)
(* of lookup on one advisory                                               *)
(***************************************************************************)
NotCleaned == [done |-> FALSE, val |-> <<>>]
Cleaned(v) == [done |-> TRUE, val |-> v]

\* no version string passed yet
CleanIdle ==
    /\ raw_version = <<>>
    /\ cleaned_version = NotCleaned

\* _clean_version(version) on a str
CleanVersionCall ==
    /\ ~cleaned_version.done
    /\ cleaned_version' = Cleaned(CleanVersion(VStr(raw_version)))
    /\ UNCHANGED raw_version

NotBuilt == [done |-> FALSE, raises |-> FALSE, vuln |-> <<>>]
Built(vuln) == [done |-> TRUE, raises |-> FALSE, vuln |-> vuln]
\* the IndexError of line 84
BuildRaised == [done |-> TRUE, raises |-> TRUE, vuln |-> <<>>]

\* no advisory received yet
NormaliseIdle ==
    /\ advisory = <<>>
    /\ vuln_record = NotBuilt

\* lines 52-86: one pass of the loop over data.get("vulns", [])
Normalise ==
    /\ ~vuln_record.done
    /\ vuln_record' = IF VulnRaises(advisory) THEN BuildRaised
                      ELSE Built(BuildVuln(advisory))
    /\ UNCHANGED advisory

(***************************************************************************)
(* Inputs of lookup: arguments and service responses                       *)
(***************************************************************************)
Workers == {"main", "second"}
MainThread == "main"

Ecosystems == {<<"n">>, <<"N">>}
Names == {<<>>, <<"a">>}
Versions == {<<>>, <<"*">>, <<"1">>}
ArgSet == [ecosystem : Ecosystems, name : Names, version : Versions]
NoArgs == [ecosystem |-> <<>>, name |-> <<>>, version |-> <<>>]

ScoreAbsent == [kind |-> "absent", val |-> 0]
ScoreText == [kind |-> "text", val |-> 0]
ScoreNum(x) == [kind |-> "num", val |-> x]

\* an advisory with an identifier and a summary and nothing else
AdvBase ==
    [has_id |-> TRUE, id |-> "OSV-1",
     has_aliases |-> FALSE, aliases |-> <<>>,
     has_summary |-> TRUE, summary |-> "s",
     has_details |-> FALSE, details |-> "",
     has_severity |-> FALSE, severity |-> <<>>,
     has_affected |-> FALSE, affected |-> <<>>,
     has_references |-> FALSE, references |-> <<>>]

SevEntry(t, sc) == [has_type |-> TRUE, type |-> t, score |-> sc]
SevNoType(sc) == [has_type |-> FALSE, type |-> "", score |-> sc]

\* advisories the service answers with in the lookup specification
Advisories ==
    { AdvBase,
      [AdvBase EXCEPT !.has_severity = TRUE,
                      !.severity = <<SevEntry("CVSS_V3", ScoreText)>>],
      [AdvBase EXCEPT !.has_references = TRUE, !.references = <<>>] }

NotJson == [json |-> FALSE, has_vulns |-> FALSE, vulns |-> <<>>]
JsonNoVulns == [json |-> TRUE, has_vulns |-> FALSE, vulns |-> <<>>]
JsonVulns(vs) == [json |-> TRUE, has_vulns |-> TRUE, vulns |-> vs]

Bodies ==
    {NotJson, JsonNoVulns, JsonVulns(<<>>)} \cup {JsonVulns(<<a>>) : a \in Advisories}

\* status codes the service answers with; the body of a response is read only
\* by resp.json() (line 49) and is drawn there
Statuses == {200, 400, 404, 429, 500, 503}
NoResp == 0

NoRet == [kind |-> "none", val |-> <<>>, err |-> "", status |-> 0]
Return(val) == [kind |-> "return", val |-> val, err |-> "", status |-> 0]
Raise(err, status) == [kind |-> "raise", val |-> <<>>, err |-> err, status |-> status]

(***************************************************************************)
(* VulnerabilityLookup.lookup                                              *)
(***************************************************************************)
\* the retry loop runs while tries < 3
MaxTries == 3

\* key = (ecosystem.lower(), name.lower(), version)
Key(a) == <<Lower(a.ecosystem), Lower(a.name), a.version>>

\* a guard clause that forgets the wildcard version
GuardNoStar(a) == a.name = <<>> \/ a.version = <<>>

\* not name or not version or version == "*"
Guard(a) == a.name = <<>> \/ a.version = <<>> \/ a.version = <<"*">>

\* a bad-request test that never matches
BadRequestNever(status) == FALSE

\* resp.status_code == 400
BadRequest(status) == status = 400

\* resp.status_code in (429, 503)
Retryable(status) == status \in {429, 503}

\* a status check that raises for server errors only
RaisesOnlyServerErrors(status) == status >= 500 /\ status < 600

\* resp.raise_for_status() raises HTTPError for 4xx and 5xx
RaisesForStatus(status) == status >= 400 /\ status < 600

\* a cache write that stores nothing
CachePutNothing(c, key, val) == c

\* self.cache[key] = val
CachePut(c, key, val) ==
    [k \in DOMAIN c \cup {key} |-> IF k = key THEN val ELSE c[k]]

Active == {w \in Workers : pc[w] # "idle"}

\* a caller enters lookup(ecosystem, name, version)
Call(w, a) ==
    /\ pc[w] = "idle"
    /\ Len(log) + Cardinality(Active) < MaxCalls
    /\ pc' = [pc EXCEPT ![w] = "check"]
    /\ args' = [args EXCEPT ![w] = a]
    /\ UNCHANGED <<cache, tries, resp, seen, ret, log>>

\* lines 29-36: cache hit, guard clause, or entry into the retry loop
CacheCheck(w) ==
    /\ pc[w] = "check"
    /\ LET key == Key(args[w])
       IN IF key \in DOMAIN cache
          THEN /\ ret' = [ret EXCEPT ![w] = Return(cache[key])]
               /\ pc' = [pc EXCEPT ![w] = "done"]
               /\ UNCHANGED <<cache, tries>>
          ELSE IF Guard(args[w])
          THEN /\ cache' = CachePut(cache, key, <<>>)
               /\ ret' = [ret EXCEPT ![w] = Return(<<>>)]
               /\ pc' = [pc EXCEPT ![w] = "done"]
               /\ UNCHANGED tries
          ELSE /\ tries' = [tries EXCEPT ![w] = 0]
               /\ pc' = [pc EXCEPT ![w] = "request"]
               /\ UNCHANGED <<cache, ret>>
    /\ UNCHANGED <<args, resp, seen, log>>

\* lines 37-48: one pass of the retry loop, the service answering status r
Request(w, r) ==
    /\ pc[w] = "request"
    /\ tries[w] < MaxTries
    /\ resp' = [resp EXCEPT ![w] = r]
    /\ seen' = [seen EXCEPT ![w] = Append(seen[w], r)]
    /\ IF BadRequest(r)
       THEN /\ cache' = CachePut(cache, Key(args[w]), <<>>)
            /\ ret' = [ret EXCEPT ![w] = Return(<<>>)]
            /\ pc' = [pc EXCEPT ![w] = "done"]
            /\ UNCHANGED tries
       ELSE IF Retryable(r)
       THEN /\ tries' = [tries EXCEPT ![w] = tries[w] + 1]
            /\ pc' = [pc EXCEPT ![w] =
                         IF tries[w] + 1 < MaxTries THEN "request" ELSE "parse"]
            /\ UNCHANGED <<cache, ret>>
       ELSE IF RaisesForStatus(r)
       THEN /\ ret' = [ret EXCEPT ![w] = Raise("HTTPError", r)]
            /\ pc' = [pc EXCEPT ![w] = "done"]
            /\ UNCHANGED <<cache, tries>>
       ELSE /\ pc' = [pc EXCEPT ![w] = "parse"]
            /\ UNCHANGED <<cache, tries, ret>>
    /\ UNCHANGED <<args, log>>

\* line 38: session.post raises (connection error, timeout); status 0 in seen
RequestFails(w) ==
    /\ pc[w] = "request"
    /\ tries[w] < MaxTries
    /\ seen' = [seen EXCEPT ![w] = Append(seen[w], 0)]
    /\ ret' = [ret EXCEPT ![w] = Raise("RequestException", 0)]
    /\ pc' = [pc EXCEPT ![w] = "done"]
    /\ UNCHANGED <<cache, args, tries, resp, log>>

\* lines 49-88: decode the body of the last response, build the records,
\* cache them, return them
Parse(w, body) ==
    /\ pc[w] = "parse"
    /\ LET vs == Get(body.has_vulns, body.vulns, <<>>)
       IN IF ~body.json
          THEN /\ ret' = [ret EXCEPT ![w] = Raise("JSONDecodeError", 0)]
               /\ UNCHANGED cache
          ELSE IF AnyVulnRaises(vs)
          THEN /\ ret' = [ret EXCEPT ![w] = Raise("IndexError", 0)]
               /\ UNCHANGED cache
          ELSE /\ cache' = CachePut(cache, Key(args[w]), BuildVulns(vs))
               /\ ret' = [ret EXCEPT ![w] = Return(BuildVulns(vs))]
    /\ pc' = [pc EXCEPT ![w] = "done"]
    /\ UNCHANGED <<args, tries, resp, seen, log>>

\* the caller takes the outcome; the finished call is appended to the history
Finish(w) ==
    /\ pc[w] = "done"
    /\ log' = Append(log, [args |-> args[w], kind |-> ret[w].kind, val |-> ret[w].val,
                          err |-> ret[w].err, requested |-> seen[w] # <<>>])
    /\ pc' = [pc EXCEPT ![w] = "idle"]
    /\ args' = [args EXCEPT ![w] = NoArgs]
    /\ tries' = [tries EXCEPT ![w] = 0]
    /\ resp' = [resp EXCEPT ![w] = NoResp]
    /\ seen' = [seen EXCEPT ![w] = <<>>]
    /\ ret' = [ret EXCEPT ![w] = NoRet]
    /\ UNCHANGED cache

LookupInit ==
    /\ cache = [k \in {} |-> <<>>]
    /\ pc = [w \in Workers |-> "idle"]
    /\ args = [w \in Workers |-> NoArgs]
    /\ tries = [w \in Workers |-> 0]
    /\ resp = [w \in Workers |-> NoResp]
    /\ seen = [w \in Workers |-> <<>>]
    /\ ret = [w \in Workers |-> NoRet]
    /\ log = <<>>

ParseIdle ==
    /\ mpath = <<>>
    /\ mcontent = <<>>
    /\ mfiles = <<>>
    /\ mresult = <<>>
    /\ mdetected = <<>>

Init == LookupInit /\ ParseIdle /\ RiskInit /\ ScanInit /\ CleanIdle /\ NormaliseIdle

\* the reference pipeline is single-threaded: one lookup at a time
Next ==
    \/ \E a \in ArgSet : Call(MainThread, a) /\ UNCHANGED notLookupVars
    \/ CacheCheck(MainThread) /\ UNCHANGED notLookupVars
    \/ \E r \in Statuses : Request(MainThread, r) /\ UNCHANGED notLookupVars
    \/ RequestFails(MainThread) /\ UNCHANGED notLookupVars
    \/ \E b \in Bodies : Parse(MainThread, b) /\ UNCHANGED notLookupVars
    \/ Finish(MainThread) /\ UNCHANGED notLookupVars

Spec == Init /\ [][Next]_vars

(***************************************************************************)
(* Inputs of parse_manifest and detect_manifests                           *)
(***************************************************************************)
\* longest requirements text drawn
MaxText == 4

ReqAlphabet == {"a", "1", "=", ">", " ", "#", "\n"}
ReqTexts == UNION {[1..n -> ReqAlphabet] : n \in 0..MaxText}

TextContent(t) == [kind |-> "text", text |-> t]
JsonContent(d) == [kind |-> "json", doc |-> d]
TomlContent(d) == [kind |-> "toml", doc |-> d]
XmlContent(ns) == [kind |-> "xml", nodes |-> ns]
GradleContent(ms) == [kind |-> "gradle", matches |-> ms]
Garbage == [kind |-> "garbage"]

\* lines of a go.mod file
GoLines ==
    {<<"m", "o", "d", "u", "l", "e", " ", "x">>, <<"r", "e", "q", "u", "i", "r", "e", " ", "(">>, <<"a", " ", "v", "1">>, <<")">>, <<"/", "/", " ", "c">>, <<"r", "e", "q", "u", "i", "r", "e", " ", "b", " ", "v", "2">>,
     <<"g", "o", " ", "1", ".", "2", "1">>, <<>>, <<"\t", "a", " ", "v", "1", " ", "/", "/", " ", "i", "n", "d", "i", "r", "e", "c", "t">>}
GoTexts ==
    {l : l \in GoLines} \cup {l1 \o <<"\n">> \o l2 : l1 \in GoLines, l2 \in GoLines}

\* dependency names and versions as they occur in key -> version maps
DepNames == {<<"a">>, <<>>, <<" ">>}
DepVersions ==
    {VStr(<<"^", "1">>), VStr(<<">", "=", "1">>), VStr(<<>>), VNum(<<"1">>),
     VDict(<< <<K.version, VStr(<<"=", "=", "1">>)>> >>), EmptyDict}
DepDicts ==
    {EmptyDict, VDict(<< <<<<"a">>, VStr(<<"1">>)>>, <<<<"b">>, VStr(<<"~", "2">>)>> >>)}
    \cup {VDict(<< <<n, v>> >>) : n \in DepNames, v \in DepVersions}
\* a section that is not a key -> version map
BadSections == {VList(<<>>), VStr(<<"x">>), VNum(<<"1">>)}
SampleDeps == VDict(<< <<<<"a">>, VStr(<<"^", "1">>)>> >>)

PackageJsonDocs ==
    {VDict(<<>>), VList(<<>>), VNum(<<"1">>), VStr(<<"x">>)}
    \cup {VDict(<< <<K.dependencies, d>> >>) : d \in DepDicts \cup BadSections}
    \cup {VDict(<< <<K.dependencies, SampleDeps>>, <<K.devDependencies, d>> >>) :
             d \in DepDicts \cup BadSections}

PipfileLockDocs ==
    {VDict(<< <<K.default, d>> >>) : d \in DepDicts \cup BadSections}
    \cup {VDict(<< <<K.default, SampleDeps>>, <<K.develop, d>> >>) :
             d \in DepDicts \cup BadSections}

JsonDocs == PackageJsonDocs \cup PipfileLockDocs

PipfileDocs ==
    {VDict(<< <<K.packages, d>> >>) : d \in DepDicts \cup BadSections}
    \cup {VDict(<< <<K.packages, SampleDeps>>, <<K.dev_packages, d>> >>) :
             d \in {SampleDeps, VStr(<<"x">>)}}
    \cup {VDict(<< <<K.packages, EmptyDict>>, <<K.default, SampleDeps>>,
                   <<K.develop, SampleDeps>> >>)}

\* entries of project.dependencies and of an optional-dependencies group
ProjectEntries ==
    {VStr(<<"a", "=", "=", "1">>), VStr(<<"a">>), VStr(<<"=", "=", "1">>), VStr(<<"a", " ", ">", "=", "1">>), VStr(<<" ", "a">>),
     VNum(<<"1">>)}
ProjectSections ==
    {VStr(<<"x">>), EmptyDict, VDict(<< <<K.dependencies, VNum(<<"1">>)>> >>)}
    \cup {VDict(<< <<K.dependencies, VList(<<e>>)>> >>) : e \in ProjectEntries}
    \cup {VDict(<< <<K.optional_dependencies, g>> >>) : g \in BadSections}
    \cup {VDict(<< <<K.optional_dependencies, VDict(<< <<<<"d", "e", "v">>, g>> >>)>> >>) :
             g \in {VList(<<e>>) : e \in ProjectEntries}
                   \cup {VNum(<<"1">>), VStr(<<"a", "b">>), SampleDeps}}
PoetrySections ==
    {VStr(<<"x">>)}
    \cup {VDict(<< <<K.dependencies, d>> >>) :
             d \in DepDicts \cup BadSections
                   \cup {VDict(<< <<K.python, VStr(<<"^", "3">>)>>, <<<<"a">>, VStr(<<"^", "1">>)>> >>)}}
    \cup {VDict(<< <<K.dev_dependencies, d>> >>) : d \in {SampleDeps, VNum(<<"1">>)}}
PyprojectDocs ==
    {VDict(<<>>), VDict(<< <<K.tool, VStr(<<"x">>)>> >>)}
    \cup {VDict(<< <<K.project, p>> >>) : p \in ProjectSections}
    \cup {VDict(<< <<K.tool, VDict(<< <<K.poetry, p>> >>)>> >>) : p \in PoetrySections}
    \cup {VDict(<< <<K.project,
                     VDict(<< <<K.dependencies, VList(<<VStr(<<"a", "=", "=", "1">>)>>)>> >>)>>,
                   <<K.tool, VDict(<< <<K.poetry, p>> >>)>> >>) :
             p \in {VDict(<< <<K.dependencies, SampleDeps>> >>), VStr(<<"x">>)}}

LockPackages ==
    {VStr(<<"x">>), EmptyDict,
     VDict(<< <<K.version, VStr(<<"1">>)>> >>)}
    \cup {VDict(<< <<K.name, n>> >>) :
             n \in {VStr(<<"a">>), VStr(<<>>), VStr(<<" ">>), VNum(<<"1">>),
                    VNum(<<"0">>)}}
    \cup {VDict(<< <<K.name, VStr(<<"a">>)>>, <<K.version, v>> >>) : v \in DepVersions}
PoetryLockDocs ==
    {VDict(<< <<K.package, p>> >>) : p \in BadSections \cup {SampleDeps}}
    \cup {VDict(<< <<K.package, VList(<<p>>)>> >>) : p \in LockPackages}
    \cup {VDict(<< <<K.package,
                     VList(<<VDict(<< <<K.name, VStr(<<"a">>)>> >>), p>>)>> >>) :
             p \in LockPackages}

CargoDocs ==
    {VDict(<< <<K.dependencies, d>> >>) : d \in DepDicts \cup BadSections}
    \cup {VDict(<< <<K.dev_dependencies, d>> >>) : d \in {SampleDeps, VStr(<<"x">>)}}
    \cup {VDict(<< <<K.build_dependencies, d>> >>) : d \in {SampleDeps, VStr(<<"x">>)}}

TomlDocs == PyprojectDocs \cup PipfileDocs \cup PoetryLockDocs \cup CargoDocs

\* m:dependency elements: each child element is present or not
PomNodes ==
    [has_groupId : BOOLEAN, groupId : {<<"g">>},
     has_artifactId : BOOLEAN, artifactId : {<<"a">>, <<>>},
     has_version : BOOLEAN, version : {<<"1">>},
     has_scope : BOOLEAN, scope : {"compile", "test", "provided", ""}]
SamplePomNode ==
    [has_groupId |-> TRUE, groupId |-> <<"g">>,
     has_artifactId |-> TRUE, artifactId |-> <<"a">>,
     has_version |-> TRUE, version |-> <<"1">>,
     has_scope |-> FALSE, scope |-> ""]
XmlDocs ==
    {<<>>} \cup {<<n>> : n \in PomNodes} \cup {<<SamplePomNode, n>> : n \in PomNodes}

GradleConfs ==
    {"implementation", "api", "compileOnly", "runtimeOnly", "testImplementation"}
GradleMatchSet ==
    [conf : GradleConfs, group : {<<"g">>, <<" ">>}, artifact : {<<"a">>},
     version : {<<"1">>, <<">", "1">>}]
GradleDocs ==
    {<<>>} \cup {<<m>> : m \in GradleMatchSet}
    \cup {<<m, [conf |-> "testImplementation", group |-> <<"g">>,
                artifact |-> <<"b">>, version |-> <<"2">>]>> : m \in GradleMatchSet}

Dirs == {<<>>, <<"s", "r", "c", "/">>}
StructuredNames ==
    {N.package_json, N.pyproject_toml, N.Pipfile, N.Pipfile_lock, N.poetry_lock,
     N.Cargo_toml, N.pom_xml}
StructuredContents ==
    {JsonContent(d) : d \in JsonDocs} \cup {TomlContent(d) : d \in TomlDocs}
    \cup {XmlContent(d) : d \in XmlDocs} \cup {Garbage}

\* <<file name, content>> pairs: every file name with the kinds of content
\* its handler decodes, and with content its handler rejects
NamedContents ==
    ({N.requirements_txt, N.requirements_dev_txt} \X {TextContent(t) : t \in ReqTexts})
    \cup ({N.go_mod} \X {TextContent(t) : t \in GoTexts})
    \cup ({N.build_gradle, N.build_gradle_kts}
             \X ({GradleContent(d) : d \in GradleDocs} \cup {Garbage}))
    \cup (StructuredNames \X StructuredContents)
    \cup ({N.README_md} \X ({Garbage} \cup {TextContent(t) : t \in GoTexts}))

NotRun == [done |-> FALSE, raises |-> FALSE, deps |-> <<>>]
Ran(outcome) == [done |-> TRUE, raises |-> outcome.raises, deps |-> outcome.deps]
NotDetected == [done |-> FALSE, paths |-> <<>>]

\* a repository listing with one README and one more file, and the content
\* fetched for that file
ParseInit ==
    \E d \in Dirs : \E nc \in NamedContents :
        /\ mpath = d \o nc[1]
        /\ mcontent = nc[2]
        /\ mfiles = <<[name |-> N.README_md, path |-> N.README_md],
                      [name |-> nc[1], path |-> d \o nc[1]]>>
        /\ mresult = NotRun
        /\ mdetected = NotDetected

\* manifests = detect_manifests(files)
DetectManifests ==
    /\ ~mdetected.done
    /\ mdetected' = [done |-> TRUE, paths |-> DetectManifestsFn(mfiles)]
    /\ UNCHANGED <<mpath, mcontent, mfiles, mresult>>

\* deps = parse_manifest(path, content)
ParseManifest ==
    /\ ~mresult.done
    /\ mresult' = Ran(ParseManifestFn(mpath, mcontent))
    /\ UNCHANGED <<mpath, mcontent, mfiles, mdetected>>

ParseNext ==
    \/ DetectManifests /\ UNCHANGED notParseVars
    \/ ParseManifest /\ UNCHANGED notParseVars

\* a scan starts with an empty lookup cache and one listed directory
InitParse == LookupInit /\ ParseInit /\ RiskInit /\ ScanInit /\ CleanIdle /\ NormaliseIdle

SpecParse == InitParse /\ [][ParseNext]_vars

(***************************************************************************)
(* Inputs of the risk model and its specification                          *)
(***************************************************************************)
\* longest list of dependency findings of one repository
MaxFindings == 2

EnumeratedLabels == {"CRITICAL", "HIGH", "MEDIUM", "LOW", "UNKNOWN"}
\* "CVSS_V3" is a label lookup produces, "high" a label in another case
RiskLabels == EnumeratedLabels \cup {"CVSS_V3", "high"}

\* labels of the lists of two vulnerabilities
PairLabels == {"CRITICAL", "MEDIUM", "UNKNOWN"}

Vuln(sev) == [has_severity |-> TRUE, severity |-> sev]
VulnNoSeverity == [has_severity |-> FALSE, severity |-> ""]

VulnLists ==
    {<<>>, <<VulnNoSeverity>>}
    \cup {<<Vuln(s)>> : s \in RiskLabels}
    \cup {<<Vuln(a), Vuln(b)>> : a \in PairLabels, b \in PairLabels}

RiskDeps ==
    {[has_scope |-> TRUE, scope |-> "runtime"],
     [has_scope |-> TRUE, scope |-> "dev"],
     [has_scope |-> FALSE, scope |-> ""]}

Finding(dep, vs) ==
    [dependency |-> dep, has_vulnerabilities |-> TRUE, vulnerabilities |-> vs]

FindingSet ==
    {Finding(d, vs) : d \in RiskDeps, vs \in VulnLists}
    \cup {[dependency |-> [has_scope |-> TRUE, scope |-> "runtime"],
           has_vulnerabilities |-> FALSE, vulnerabilities |-> <<>>]}

VulnsOf(item) == Get(item.has_vulnerabilities, item.vulnerabilities, <<>>)

\* dependencies.append({"dependency": dep, "vulnerabilities": vulns_for_dep})
AppendFinding(f) ==
    /\ Len(findings) < MaxFindings
    /\ ~repo_summary.done /\ ~dep_scores.done
    /\ findings' = Append(findings, f)
    /\ UNCHANGED <<repo_summary, dep_scores>>

\* scores = repo_risk(dependencies)
RepoRisk ==
    /\ ~repo_summary.done /\ ~dep_scores.done
    /\ repo_summary' = Scored(repo_risk(findings))
    /\ UNCHANGED <<findings, dep_scores>>

\* dependency_risk(dep, vulns) for each finding of the list
DependencyRisk ==
    /\ ~repo_summary.done /\ ~dep_scores.done
    /\ dep_scores' = Scored([i \in 1..Len(findings) |->
                            dependency_risk(findings[i].dependency, VulnsOf(findings[i]))])
    /\ UNCHANGED <<findings, repo_summary>>

InitRisk == LookupInit /\ ParseIdle /\ RiskInit /\ ScanInit /\ CleanIdle /\ NormaliseIdle

RiskNext ==
    \/ \E f \in FindingSet : AppendFinding(f) /\ UNCHANGED notRiskVars
    \/ RepoRisk /\ UNCHANGED notRiskVars
    \/ DependencyRisk /\ UNCHANGED notRiskVars

SpecRisk == InitRisk /\ [][RiskNext]_vars

(***************************************************************************)
(* The specification of scan requests served one after another             *)
(***************************************************************************)
InitScan == LookupInit /\ ParseIdle /\ RiskInit /\ ScanInit /\ CleanIdle /\ NormaliseIdle

ScanNext ==
    \/ \E o \in Owners : ScanStart(o) /\ UNCHANGED notScanVars
    \/ \E n \in 0..MaxRepos : FetchRepos(n) /\ UNCHANGED notScanVars
    \/ \E e \in ErrorKinds : FetchReposFails(e) /\ UNCHANGED notScanVars
    \/ BeginRepo /\ UNCHANGED notScanVars
    \/ FinishRepo /\ UNCHANGED notScanVars
    \/ \E e \in ErrorKinds : RepoFails(e) /\ UNCHANGED notScanVars
    \/ ScanOwnerReturns /\ UNCHANGED notScanVars
    \/ ScanExcept /\ UNCHANGED notScanVars
    \/ ScanElse /\ UNCHANGED notScanVars

SpecScan == InitScan /\ [][ScanNext]_vars

(***************************************************************************)
(* Inputs of _clean_version and its specification                          *)
(***************************************************************************)
\* longest version string drawn
MaxVersion == 4

VersionAlphabet == {">", "=", "^", " ", "1", "s"}
VersionTexts == UNION {[1..n -> VersionAlphabet] : n \in 0..MaxVersion}

CleanInit ==
    /\ raw_version \in VersionTexts
    /\ cleaned_version = NotCleaned

InitClean == LookupInit /\ ParseIdle /\ RiskInit /\ ScanInit /\ CleanInit /\ NormaliseIdle

CleanNext == CleanVersionCall /\ UNCHANGED notCleanVars

SpecClean == InitClean /\ [][CleanNext]_vars

(***************************************************************************)
(* Advisories for the normalisation and its specification                  *)
(***************************************************************************)
Event(hi, i, hf, f) ==
    [has_introduced |-> hi, introduced |-> i, has_fixed |-> hf, fixed |-> f]

EventLists ==
    {<<>>,
     <<Event(TRUE, <<"0">>, FALSE, <<>>), Event(FALSE, <<>>, TRUE, <<"1", "0">>)>>,
     <<Event(TRUE, <<"1">>, TRUE, <<"9">>)>>,
     <<Event(FALSE, <<>>, TRUE, <<"2">>)>>}

Range(he, e) == [has_events |-> he, events |-> e]

RangeLists ==
    {<<>>, <<Range(FALSE, <<>>)>>}
    \cup {<<Range(TRUE, e)>> : e \in EventLists}
    \cup {<<Range(TRUE, e), Range(TRUE, <<Event(FALSE, <<>>, TRUE, <<"1", ".", "2">>)>>)>> :
             e \in EventLists}

AffectedEntries ==
    {[has_ranges |-> hr, ranges |-> r, has_versions |-> hv, versions |-> v] :
        hr \in BOOLEAN, r \in RangeLists, hv \in BOOLEAN,
        v \in {<<>>, <<<<"9">>, <<"1", "0">>>>, <<<<"2">>>>}}

AffectedLists ==
    {<<>>}
    \cup {<<a>> : a \in AffectedEntries}
    \cup {<<a, b>> : a \in AffectedEntries,
                     b \in {x \in AffectedEntries :
                               x.has_versions /\ x.has_ranges /\ Len(x.ranges) < 2}}

SeverityEntries ==
    {SevEntry("CVSS_V3", ScoreText), SevEntry("HIGH", ScoreNum(75)),
     SevNoType(ScoreAbsent), SevEntry("LOW", ScoreAbsent)}

SeverityLists ==
    {<<>>} \cup {<<a>> : a \in SeverityEntries}
    \cup {<<a, b>> : a \in SeverityEntries, b \in SeverityEntries}

ReferenceLists ==
    {<<>>,
     <<[has_url |-> TRUE, url |-> "u"]>>,
     <<[has_url |-> FALSE, url |-> ""], [has_url |-> TRUE, url |-> "u"]>>}

\* advisories that vary the identifier, the aliases, the texts, the references
IdentifiedAdvisories ==
    {[AdvBase EXCEPT !.has_id = hi, !.id = i, !.has_aliases = ha, !.aliases = al,
                     !.has_summary = hs, !.summary = s,
                     !.has_details = hd, !.details = "d",
                     !.has_references = hr, !.references = rf] :
        hi \in BOOLEAN, i \in {"", "OSV-1"}, ha \in BOOLEAN,
        al \in {<<>>, <<"CVE-1", "CVE-2">>}, hs \in BOOLEAN, s \in {"", "s"},
        hd \in BOOLEAN, hr \in BOOLEAN, rf \in ReferenceLists}

RatedAdvisories ==
    {[AdvBase EXCEPT !.has_severity = h, !.severity = sv] :
        h \in BOOLEAN, sv \in SeverityLists}

AffectingAdvisories ==
    {[AdvBase EXCEPT !.has_affected = h, !.affected = af] :
        h \in BOOLEAN, af \in AffectedLists}

AdvisorySet == IdentifiedAdvisories \cup RatedAdvisories \cup AffectingAdvisories

NormaliseInit ==
    /\ advisory \in AdvisorySet
    /\ vuln_record = NotBuilt

InitNormalise ==
    LookupInit /\ ParseIdle /\ RiskInit /\ ScanInit /\ CleanIdle /\ NormaliseInit

NormaliseNext == Normalise /\ UNCHANGED notNormaliseVars

SpecNormalise == InitNormalise /\ [][NormaliseNext]_vars

(***************************************************************************)
(* Two workers calling lookup on one VulnerabilityLookup object for one    *)
(* key, their steps interleaved                                            *)
(***************************************************************************)
\* arguments with the key ("n", "a", "1")
RaceArgs == {a \in ArgSet : a.name = <<"a">> /\ a.version = <<"1">>}

RaceNext ==
    \/ \E w \in Workers : \E a \in RaceArgs : Call(w, a) /\ UNCHANGED notLookupVars
    \/ \E w \in Workers : CacheCheck(w) /\ UNCHANGED notLookupVars
    \/ \E w \in Workers : \E r \in Statuses : Request(w, r) /\ UNCHANGED notLookupVars
    \/ \E w \in Workers : RequestFails(w) /\ UNCHANGED notLookupVars
    \/ \E w \in Workers : \E b \in Bodies : Parse(w, b) /\ UNCHANGED notLookupVars
    \/ \E w \in Workers : Finish(w) /\ UNCHANGED notLookupVars

SpecRace == Init /\ [][RaceNext]_vars

(***************************************************************************)
(* Claims about lookup, checked under Spec                                 *)
(***************************************************************************)
IsGuardArgs(a) == a.name = <<>> \/ a.version = <<>> \/ a.version = <<"*">>
LastSeen(w) == seen[w][Len(seen[w])]
CacheKeyOf(a) == <<Lower(a.ecosystem), Lower(a.name), a.version>>

\* C1: when every attempt of a lookup is answered 429 or 503, the lookup
\* stops after 3 requests and raises the last response's HTTP error; it does
\* not return a list.
C1_ExhaustedRetriesRaise ==
    \A w \in Workers :
        /\ Len(seen[w]) <= 3
        /\ (/\ pc[w] = "done"
            /\ Len(seen[w]) = 3
            /\ \A i \in 1..3 : seen[w][i] \in {429, 503})
           => /\ ret[w].kind = "raise"
              /\ ret[w].err = "HTTPError"
              /\ ret[w].status = seen[w][3]

\* C2 (as amended): once a call of lookup has returned a result, every later
\* call with identical arguments issues no request and returns the same
\* list, whatever lookups happened in between.
C2_SecondLookupIsCacheHit ==
    \A i \in 1..Len(log) : \A j \in 1..Len(log) :
        (i < j /\ log[i].args = log[j].args /\ log[i].kind = "return")
        => /\ log[j].kind = "return"
           /\ ~log[j].requested
           /\ log[j].val = log[i].val

\* a queried, non-empty result is returned again after another lookup
C2_Witness ==
    /\ Len(log) = 3
    /\ log[1].args = log[3].args
    /\ log[2].args # log[1].args
    /\ log[1].kind = "return" /\ log[1].requested /\ log[1].val # <<>>
    /\ log[3].val = log[1].val

\* C2 (original): two calls of lookup with identical arguments issue at most
\* one network call between them, and the second call after a returned first
\* call is a cache hit returning the same list.
C2_AtMostOneNetworkCall ==
    /\ \A w \in Workers : Len(seen[w]) <= 1
    /\ \A i \in 1..Len(log) : \A j \in 1..Len(log) :
           (i < j /\ log[i].args = log[j].args)
           => ~(log[i].requested /\ log[j].requested)
    /\ C2_SecondLookupIsCacheHit

\* C3: lookup with an empty name, an empty version or the version "*"
\* returns the empty list, issues no request, and leaves the empty list
\* cached under its key, in every reachable cache state.
C3_GuardShortCircuits ==
    /\ \A w \in Workers :
           (pc[w] = "done" /\ IsGuardArgs(args[w]))
           => /\ ret[w] = Return(<<>>)
              /\ seen[w] = <<>>
              /\ CacheKeyOf(args[w]) \in DOMAIN cache
              /\ cache[CacheKeyOf(args[w])] = <<>>
    /\ \A w \in Workers : IsGuardArgs(args[w]) => pc[w] \in {"idle", "check", "done"}
    /\ \A i \in 1..Len(log) :
           IsGuardArgs(log[i].args)
           => log[i].kind = "return" /\ log[i].val = <<>> /\ ~log[i].requested

\* a wildcard lookup answered from the guard while the cache holds a
\* non-empty entry for another key
C3_Witness ==
    \E w \in Workers :
        /\ pc[w] = "done"
        /\ args[w].version = <<"*">> /\ args[w].name # <<>>
        /\ ret[w] = Return(<<>>)
        /\ \E k \in DOMAIN cache : cache[k] # <<>>

\* C4: when any attempt of a lookup is answered 400, that attempt is the
\* last one, the lookup returns the empty list without raising, and the
\* empty list is cached under the key.
C4_BadRequestMeansNoVulns ==
    \A w \in Workers :
        (\E i \in 1..Len(seen[w]) : seen[w][i] = 400)
        => /\ \A i \in 1..Len(seen[w]) : seen[w][i] = 400 => i = Len(seen[w])
           /\ pc[w] = "done"
           /\ ret[w] = Return(<<>>)
           /\ CacheKeyOf(args[w]) \in DOMAIN cache
           /\ cache[CacheKeyOf(args[w])] = <<>>

\* a 400 answered to a retry
C4_Witness ==
    \E w \in Workers :
        /\ pc[w] = "done"
        /\ Len(seen[w]) = 2 /\ seen[w][1] = 429 /\ seen[w][2] = 400
        /\ ret[w] = Return(<<>>)

IsFatalStatus(s) == s >= 400 /\ s < 600 /\ s \notin {400, 429, 503}

\* C5: when an attempt is answered with an error status other than 400, 429
\* and 503, the lookup raises and the cache has no entry for the key; the
\* next lookup of the same tuple issues a new request.
C5_FatalStatusNotCached ==
    /\ \A w \in Workers :
           (seen[w] # <<>> /\ IsFatalStatus(LastSeen(w)))
           => /\ pc[w] = "done"
              /\ ret[w] = Raise("HTTPError", LastSeen(w))
              /\ CacheKeyOf(args[w]) \notin DOMAIN cache
    /\ \A i \in 1..Len(log) : \A j \in 1..Len(log) :
           (/\ i < j
            /\ log[i].args = log[j].args
            /\ log[i].err = "HTTPError"
            /\ \A k \in (i+1)..(j-1) :
                   CacheKeyOf(log[k].args) # CacheKeyOf(log[i].args))
           => log[j].requested

\* a lookup fails on a fatal status after a retry, and the next lookup of
\* the same tuple succeeds with a non-empty list
C5_Witness ==
    /\ Len(log) >= 2
    /\ log[1].args = log[2].args
    /\ log[1].err = "HTTPError"
    /\ log[2].kind = "return" /\ log[2].val # <<>>

SeverityLabels == {"CRITICAL", "HIGH", "MEDIUM", "LOW", "UNKNOWN"}

\* C8: every record lookup returns or caches has a severity among CRITICAL,
\* HIGH, MEDIUM, LOW, UNKNOWN.
C8_SeverityIsEnumerated ==
    /\ \A k \in DOMAIN cache : \A i \in 1..Len(cache[k]) :
           cache[k][i].severity \in SeverityLabels
    /\ \A w \in Workers : \A i \in 1..Len(ret[w].val) :
           ret[w].val[i].severity \in SeverityLabels

(***************************************************************************)
(* Claims about parse_manifest, checked under SpecParse                    *)
(***************************************************************************)
\* what the handler registered for the file name does with the content
SelectedOutcome == ApplyHandler(HandlerFor(PathName(mpath)), mcontent, mpath)

IsRequirementsName(name) ==
    StartsWith(name, <<"r", "e", "q", "u", "i", "r", "e", "m", "e", "n", "t", "s">>) /\ EndsWith(name, <<".", "t", "x", "t">>)

\* C7: parse_manifest treats every file named requirements*.txt as a
\* pip-requirements manifest, so every path detect_manifests reports has a
\* strategy.
C7_RequirementsWildcard ==
    /\ (mresult.done /\ IsRequirementsName(PathName(mpath)))
       => /\ ~mresult.raises
          /\ mresult.deps = ParseRequirementsTxt(mcontent, mpath).deps
    /\ (mresult.done /\ mdetected.done)
       => \A i \in 1..Len(mdetected.paths) :
              mdetected.paths[i] = mpath => HandlerFor(PathName(mpath)) # "none"

\* C9: every record parse_manifest returns has scope runtime, dev or test.
C9_ScopeIsEnumerated ==
    mresult.done
    => \A i \in 1..Len(mresult.deps) :
           mresult.deps[i].scope \in {"runtime", "dev", "test"}

\* C10: every record parse_manifest returns has a non-empty ecosystem and a
\* non-empty name.
C10_EcosystemAndNameNonEmpty ==
    mresult.done
    => \A i \in 1..Len(mresult.deps) :
           /\ mresult.deps[i].ecosystem # ""
           /\ mresult.deps[i].name # <<>>

(***************************************************************************)
(* Claims about the risk model, checked under SpecRisk                     *)
(***************************************************************************)
\* the weights as the documentation states them
StatedWeight(label) ==
    CASE label = "CRITICAL" -> 5
      [] label = "HIGH" -> 4
      [] label = "MEDIUM" -> 3
      [] label = "LOW" -> 1
      [] label = "UNKNOWN" -> 1

HasStatedLabels(vulns) ==
    \A i \in 1..Len(vulns) :
        vulns[i].has_severity /\ vulns[i].severity \in EnumeratedLabels

StatedScore(dep, vulns) ==
    Max({StatedWeight(vulns[i].severity) : i \in 1..Len(vulns)})
    + (IF dep.has_scope /\ dep.scope = "runtime" THEN 1 ELSE 0)

\* C11: dependency_risk returns 0 for a dependency without vulnerabilities;
\* otherwise it returns the largest weight among the severities of the
\* vulnerabilities (CRITICAL 5, HIGH 4, MEDIUM 3, LOW 1, UNKNOWN 1), plus 1
\* when the scope of the dependency is runtime and plus 0 otherwise.
C11_DependencyRiskScore ==
    dep_scores.done =>
        \A i \in 1..Len(findings) :
            LET dep == findings[i].dependency
                vulns == VulnsOf(findings[i])
            IN /\ vulns = <<>> => dep_scores.val[i] = 0
               /\ (vulns # <<>> /\ HasStatedLabels(vulns))
                  => dep_scores.val[i] = StatedScore(dep, vulns)

\* a runtime dependency with one HIGH vulnerability scores 5, the same
\* dependency with scope dev scores 4
C11_Witness ==
    /\ dep_scores.done
    /\ Len(findings) = 2
    /\ findings[1] = Finding([has_scope |-> TRUE, scope |-> "runtime"], <<Vuln("HIGH")>>)
    /\ findings[2] = Finding([has_scope |-> TRUE, scope |-> "dev"], <<Vuln("HIGH")>>)
    /\ dep_scores.val = <<5, 4>>

RECURSIVE SumOfScores(_)
SumOfScores(items) ==
    IF items = <<>> THEN 0
    ELSE dependency_risk(Head(items).dependency, VulnsOf(Head(items)))
         + SumOfScores(Tail(items))

\* C12: the summary repo_risk computes has a risk score equal to the sum of
\* the per-dependency scores of all findings and a vulnerable-dependency
\* count equal to the number of findings with a non-empty vulnerability
\* list, which is not the total number of vulnerabilities.
C12_SummarySumsAndCounts ==
    repo_summary.done =>
        /\ repo_summary.val.risk_score = SumOfScores(findings)
        /\ repo_summary.val.vulnerable_dependencies =
               Cardinality({i \in 1..Len(findings) : VulnsOf(findings[i]) # <<>>})

\* one finding with two vulnerabilities and one with none: the count is 1
C12_Witness ==
    /\ repo_summary.done
    /\ Len(findings) = 2
    /\ Len(VulnsOf(findings[1])) = 2
    /\ VulnsOf(findings[2]) = <<>>
    /\ repo_summary.val.vulnerable_dependencies = 1
    /\ repo_summary.val.risk_score > 0

Reordered(items) ==
    {[i \in 1..Len(items) |-> items[p[i]]] :
        p \in {q \in [1..Len(items) -> 1..Len(items)] :
                  \A a, b \in 1..Len(items) : q[a] = q[b] => a = b}}

\* C13: when the findings contain at least one vulnerability, the
\* highest_severity of repo_risk is a label seen among the vulnerabilities,
\* no vulnerability ranks higher than it, and it is the same for every
\* order of the findings.
C13_HighestSeverityIsSeenMaximum ==
    LET seenLabels == UNION {{SeverityOf(VulnsOf(findings[i])[j]) :
                                 j \in 1..Len(VulnsOf(findings[i]))} :
                             i \in 1..Len(findings)}
        highest == repo_summary.val.highest_severity
    IN (repo_summary.done /\ seenLabels # {})
       => /\ highest \in seenLabels
          /\ \A l \in seenLabels : severity_rank(l) <= severity_rank(highest)
          /\ \A other \in Reordered(findings) :
                 repo_risk(other).highest_severity = highest

(***************************************************************************)
(* Claims about the scan request, checked under SpecScan                   *)
(***************************************************************************)
LastResponse == responses[Len(responses)]

\* C14: when a scan fails with a fatal error at any point (rate limit,
\* transport failure, a failed lookup, an unexpected error), also after some
\* repositories were processed, nothing partial is committed: from the
\* failure until the next scan commits, the store the exports read is empty.
C14_FailedScanLeavesStoreEmpty ==
    (responses # <<>> /\ LastResponse # OkText) => LATEST_RESULTS = NoResults

\* a scan that committed, then a scan that failed on a transport error after
\* one of its two repositories was processed
C14_Witness ==
    /\ Len(responses) = 2
    /\ responses[1] = OkText
    /\ responses[2] = ErrorText("RequestException")
    /\ Len(repos) = 2 /\ Len(results) = 1
    /\ scan_pc = "idle"
    /\ LATEST_RESULTS = NoResults

(***************************************************************************)
(* Claim about _clean_version, checked under SpecClean                     *)
(***************************************************************************)
StatedOperators == {"~", "^", ">", "<", "="}

RECURSIVE DropLeadingRun(_)
DropLeadingRun(v) ==
    IF v # <<>> /\ (Head(v) \in StatedOperators \/ IsSpace(Head(v)))
    THEN DropLeadingRun(Tail(v))
    ELSE v

\* C15: for every version string the normaliser returns the input without
\* its whole leading run of the characters ~ ^ > < = and whitespace and
\* removes no other character; when that would leave the empty string it
\* returns the input unchanged.
C15_StripsLeadingOperatorsAndSpace ==
    cleaned_version.done =>
        cleaned_version.val = IF DropLeadingRun(raw_version) = <<>>
                              THEN raw_version
                              ELSE DropLeadingRun(raw_version)

(***************************************************************************)
(* Claims about the record built from an advisory, checked under           *)
(* SpecNormalise                                                           *)
(***************************************************************************)
HasIdentifier(a) == a.has_id /\ a.id # ""
AliasesOf(a) == IF a.has_aliases THEN a.aliases ELSE <<>>

\* C16: the id of the record is the identifier of the advisory whenever the
\* advisory has one, with or without aliases; it is the first alias only
\* when the identifier is absent.
C16_IdIsIdentifierElseFirstAlias ==
    (vuln_record.done /\ ~vuln_record.raises) =>
        /\ HasIdentifier(advisory) => vuln_record.vuln.id = advisory.id
        /\ (~HasIdentifier(advisory) /\ AliasesOf(advisory) # <<>>)
           => vuln_record.vuln.id = AliasesOf(advisory)[1]

AllFixedEvents(a) ==
    LET affected == Get(a.has_affected, a.affected, <<>>)
        rangesOf(aff) == Get(aff.has_ranges, aff.ranges, <<>>)
        eventsOf(r) == Get(r.has_events, r.events, <<>>)
    IN UNION {UNION {EventFixed(eventsOf(rangesOf(affected[i])[j])) :
                        j \in 1..Len(rangesOf(affected[i]))} :
              i \in 1..Len(affected)}

AllEnumeratedVersions(a) ==
    LET affected == Get(a.has_affected, a.affected, <<>>)
    IN UNION {SeqToSet(Get(affected[i].has_versions, affected[i].versions, <<>>)) :
              i \in 1..Len(affected)}

IsAscending(vs) ==
    \A i \in 1..Len(vs) : \A j \in 1..Len(vs) : i < j => StrLess(vs[i], vs[j])

\* C17: fixed_versions of the record is the deduplicated, ascending list of
\* the version of every fixed event in every ranges group of every affected
\* entry together with every enumerated affected version, a fixed event of a
\* second or later ranges group included.
C17_FixedVersionsCoverAllRanges ==
    (vuln_record.done /\ ~vuln_record.raises) =>
        /\ SeqToSet(vuln_record.vuln.fixed_versions)
               = AllFixedEvents(advisory) \cup AllEnumeratedVersions(advisory)
        /\ IsAscending(vuln_record.vuln.fixed_versions)

\* C18: reference_url of the record is the URL of the first reference, and
\* the empty string when there is no reference, the references field being
\* absent or an empty array; the normalisation does not fail in either case.
C18_ReferenceUrlNeverFails ==
    vuln_record.done =>
        LET refs == Get(advisory.has_references, advisory.references, <<>>)
        IN /\ ~vuln_record.raises
           /\ refs = <<>> => vuln_record.vuln.reference_url = ""
           /\ refs # <<>> => vuln_record.vuln.reference_url
                                 = Get(refs[1].has_url, refs[1].url, "")

(***************************************************************************)
(* Claim about concurrent lookups, checked under SpecRace                  *)
(***************************************************************************)
\* a worker that returns a list returns the list the cache holds for its key
ReturnsCachedResult ==
    \A w \in Workers :
        (pc[w] = "done" /\ ret[w].kind = "return")
        => /\ Key(args[w]) \in DOMAIN cache
           /\ cache[Key(args[w])] = ret[w].val

\* a step never replaces the entry of a key by a different list
EntryNeverReplaced ==
    \A k \in DOMAIN cache : k \in DOMAIN cache' /\ cache'[k] = cache[k]

\* C19: when two workers run lookup concurrently on one cache for the same
\* key, then under every interleaving of their steps and whatever the
\* service answers each of them, the key is written once, or both workers
\* write the same result, and each returns the result that is cached.
C19_ConcurrentLookupsConverge ==
    [](ReturnsCachedResult) /\ [][EntryNeverReplaced]_vars

(***************************************************************************)
(* Claim about what may enter the cache, checked under Spec                *)
(***************************************************************************)
IsSuccessStatus(status) == status >= 200 /\ status < 300

\* C20: a key gets a cache entry only in a lookup of that key that hit the
\* guard clause, received a 400 response, or received a 2xx response; a
\* lookup whose every attempt was answered 429 or 503 writes no entry, so
\* rate limiting is never recorded as "no known vulnerabilities".
C20_CacheWrittenOnlyOnAnswer ==
    [][\A k \in DOMAIN cache' \ DOMAIN cache :
          \E w \in Workers :
              /\ Key(args[w]) = k
              /\ \/ Guard(args[w]) /\ seen[w] = <<>>
                 \/ resp'[w] = 400
                 \/ IsSuccessStatus(resp[w]) /\ pc[w] = "parse"]_vars

(***************************************************************************)
(* Claim about the progress record, checked under SpecScan                 *)
(***************************************************************************)
\* the scan request has been answered and no other one has started
ScanFinished == scan_pc = "idle" /\ responses # <<>>

ProgressSettled ==
    ScanFinished => PROGRESS.state \notin {"starting", "scanning"}

ProcessedWithinTotal ==
    scan_pc \in {"for repo", "repo", "returned"} => PROGRESS.processed <= PROGRESS.total

ProcessedIsTotalOnSuccess ==
    (ScanFinished /\ LastResponse = OkText) => PROGRESS.processed = PROGRESS.total

ProcessedNeverDecreases ==
    scan_pc # "idle" => PROGRESS'.processed >= PROGRESS.processed

\* C21: whenever a scan request has finished, by success or by a fatal error
\* raised at any point of scan_owner, the progress record no longer reports
\* the state "starting" or "scanning"; while a scan runs, processed never
\* decreases and never exceeds total, and on success processed equals total.
C21_ProgressSettlesAndCounts ==
    /\ [](ProgressSettled)
    /\ [](ProcessedWithinTotal)
    /\ [](ProcessedIsTotalOnSuccess)
    /\ [][ProcessedNeverDecreases]_vars

====
